---- MODULE Spec2Model ----
(***************************************************************************)
(* Palace Cafe backend: order placement (cash flow POST /api/orders and    *)
(* paid flow POST /api/stripe/confirm-payment), invoice numbering and      *)
(* issuance, invoice e-mail bookkeeping, and the admin order lifecycle     *)
(* handlers of src/server.js, with the helpers of                          *)
(* src/utils/invoice-generator.js and src/utils/email-service.js.          *)
(*                                                                         *)
(* Every `await` of a handler that reads or writes a shared row is one     *)
(* step of the handler's flow, so concurrent requests interleave exactly   *)
(* where the Node.js event loop lets them.  Money is kept in whole cents,  *)
(* time in whole minutes.                                                  *)
(***************************************************************************)
EXTENDS Integers, Sequences, FiniteSets, TLC

(***************************************************************************)
(* Bounds of the model.                                                    *)
(***************************************************************************)
MaxIssueOrders == 2
MaxRaceOrders == 3
MaxFlows == 2
MaxYear == 1
MaxLifeOrders == 1
MaxSeqOrders == 3
MaxAttempts == 2
MaxResendOrders == 2
MaxNow == 1
MaxEvents == 3
MaxPriceOrders == 1
MaxPayOrders == 2
MaxVatOrders == 1
MaxQuantity == 17
MaxChargeOrders == 1

(***************************************************************************)
(* Optional values: null / undefined is the empty sequence.                *)
(***************************************************************************)
None == << >>
Some(x) == << x >>
IsSome(o) == Len(o) = 1
Val(o) == o[1]

Flows == 1 .. MaxFlows

(***************************************************************************)
(* JavaScript numbers.  The amounts the handlers compute with are IEEE 754 *)
(* doubles: every operation yields the exact result rounded to 53          *)
(* significant bits, ties to even.  A non-negative double is kept here as  *)
(* its value in units of 2^-Scale, written in base 2^LimbBits with the     *)
(* least significant digit first; every double that occurs is a whole      *)
(* multiple of that unit.                                                  *)
(***************************************************************************)
LimbBits == 15
Scale == 60
MantissaBits == 53

Base == 2 ^ LimbBits

\* drop the zero digits at the high end
RECURSIVE Normalize(_)
Normalize(a) ==
  IF a = << >> THEN a
  ELSE IF a[Len(a)] = 0 THEN Normalize(SubSeq(a, 1, Len(a) - 1))
  ELSE a

Digit(a, i) == IF i <= Len(a) THEN a[i] ELSE 0

RECURSIVE AddFrom(_, _, _, _)
AddFrom(a, b, i, carry) ==
  IF i > Len(a) /\ i > Len(b)
  THEN (IF carry = 0 THEN << >> ELSE << carry >>)
  ELSE LET sum == Digit(a, i) + Digit(b, i) + carry
       IN  << sum % Base >> \o AddFrom(a, b, i + 1, sum \div Base)

Add(a, b) == AddFrom(a, b, 1, 0)

\* a - b for a >= b
RECURSIVE SubFrom(_, _, _, _)
SubFrom(a, b, i, borrow) ==
  IF i > Len(a) THEN << >>
  ELSE LET diff == a[i] - Digit(b, i) - borrow
       IN  << diff % Base >> \o SubFrom(a, b, i + 1, IF diff < 0 THEN 1 ELSE 0)

Sub(a, b) == Normalize(SubFrom(a, b, 1, 0))

\* a < b, both without high zero digits
Less(a, b) ==
  IF Len(a) # Len(b) THEN Len(a) < Len(b)
  ELSE \E i \in 1 .. Len(a) :
         /\ a[i] < b[i]
         /\ \A j \in (i + 1) .. Len(a) : a[j] = b[j]

\* a * n for a small natural n
RECURSIVE TimesFrom(_, _, _, _)
TimesFrom(a, n, i, carry) ==
  IF i > Len(a)
  THEN (IF carry = 0 THEN << >> ELSE << carry >>)
  ELSE LET prod == a[i] * n + carry
       IN  << prod % Base >> \o TimesFrom(a, n, i + 1, prod \div Base)

Times(a, n) == Normalize(TimesFrom(a, n, 1, 0))

RECURSIVE BitLengthOf(_)
BitLengthOf(n) == IF n = 0 THEN 0 ELSE 1 + BitLengthOf(n \div 2)

BitLength(a) ==
  IF a = << >> THEN 0 ELSE LimbBits * (Len(a) - 1) + BitLengthOf(a[Len(a)])

\* a mod 2^s and 2^s
ModPow2(a, s) ==
  Normalize([ i \in 1 .. Len(a) |->
                IF i <= s \div LimbBits THEN a[i]
                ELSE IF i = s \div LimbBits + 1 THEN a[i] % (2 ^ (s % LimbBits))
                ELSE 0 ])

Pow2(s) == [ i \in 1 .. (s \div LimbBits + 1) |->
             IF i = s \div LimbBits + 1 THEN 2 ^ (s % LimbBits) ELSE 0 ]

BitAt(a, s) == (Digit(a, s \div LimbBits + 1) \div (2 ^ (s % LimbBits))) % 2

\* the exact value a, plus a positive amount below one unit when `inexact`,
\* rounded to MantissaBits significant bits, ties to even
RoundToDouble(a, inexact) ==
  LET shift == BitLength(a) - MantissaBits
  IN  IF shift <= 0 THEN a
      ELSE LET rem == ModPow2(a, shift)
               half == Pow2(shift - 1)
               down == Sub(a, rem)
               up == \/ Less(half, rem)
                     \/ rem = half /\ (inexact \/ BitAt(a, shift) = 1)
           IN  IF up THEN Add(down, Pow2(shift)) ELSE down

RECURSIVE NatDigits(_)
NatDigits(n) == IF n = 0 THEN << >> ELSE << n % Base >> \o NatDigits(n \div Base)

\* long division of the digits a, from the high end, by a small natural den:
\* the quotient's digits and the remainder
RECURSIVE DivFrom(_, _, _, _)
DivFrom(a, den, i, rem) ==
  IF i = 0 THEN [ digits |-> << >>, rem |-> rem ]
  ELSE LET cur == rem * Base + a[i]
           rest == DivFrom(a, den, i - 1, cur % den)
       IN  [ digits |-> Append(rest.digits, cur \div den), rem |-> rest.rem ]

\* the double nearest to num / den
DoubleOfRatio(num, den) ==
  LET scaled == [ i \in 1 .. (Scale \div LimbBits) |-> 0 ] \o NatDigits(num)
      q == DivFrom(scaled, den, Len(scaled), 0)
  IN  RoundToDouble(Normalize(q.digits), q.rem # 0)

\* a decimal amount of whole cents as the double of its value in euros
DoubleOfCents(cents) == DoubleOfRatio(cents, 100)

\* double * integer, double + double, |double - double|
DoubleTimes(a, n) == RoundToDouble(Times(a, n), FALSE)
DoublePlus(a, b) == RoundToDouble(Add(a, b), FALSE)
DoubleAbsDiff(a, b) ==
  IF Less(a, b) THEN RoundToDouble(Sub(b, a), FALSE) ELSE RoundToDouble(Sub(a, b), FALSE)

\* the exact product a * b of two digit sequences, in units of 2^-(2 * Scale)
RECURSIVE ProductFrom(_, _, _)
ProductFrom(a, b, i) ==
  IF i > Len(a) THEN << >>
  ELSE Add([ j \in 1 .. (i - 1) |-> 0 ] \o Times(b, a[i]), ProductFrom(a, b, i + 1))

\* double * double
DoubleProduct(a, b) ==
  LET exact == ProductFrom(a, b, 1)
      low == Scale \div LimbBits
  IN  IF Len(exact) <= low THEN << >>
      ELSE RoundToDouble(SubSeq(exact, low + 1, Len(exact)),
                         \E i \in 1 .. low : exact[i] # 0)

\* Math.round of a double, as an integer: the nearest integer, halves up
MathRound(a) ==
  LET low == Scale \div LimbBits
      whole == Digit(a, low + 1) + Base * Digit(a, low + 2)
  IN  whole + BitAt(a, Scale - 1)

(***************************************************************************)
(* Wire-level enums.                                                       *)
(***************************************************************************)
OrderStatus ==
  { "PENDING", "CONFIRMED", "PREPARING", "READY", "OUT_FOR_DELIVERY",
    "DELIVERED", "CANCELLED", "REFUNDED" }

PaymentMethod == { "CASH", "CARD", "ONLINE", "TRANSFER" }

NoEmail == ""

(***************************************************************************)
(* Catalog rows (menu_items, fries_options) the pricing loop looks up.     *)
(***************************************************************************)
\* item 3 has been switched off by PATCH .../availability, item 4 soft-deleted
\* by DELETE /api/admin/menu/items/:id
MenuItems ==
  ( 1 :> [ price |-> 890, includesSides |-> TRUE, isAvailable |-> TRUE,
           isDeleted |-> FALSE ] ) @@
  ( 2 :> [ price |-> 250, includesSides |-> FALSE, isAvailable |-> TRUE,
           isDeleted |-> FALSE ] ) @@
  ( 3 :> [ price |-> 450, includesSides |-> FALSE, isAvailable |-> FALSE,
           isDeleted |-> FALSE ] ) @@
  ( 4 :> [ price |-> 690, includesSides |-> TRUE, isAvailable |-> FALSE,
           isDeleted |-> TRUE ] )

FriesOptions ==
  ( "regular" :> [ priceAddon |-> 90 ] ) @@
  ( "regular-fries" :> [ priceAddon |-> 100 ] ) @@
  ( "sweet-potato-fries" :> [ priceAddon |-> 130 ] )

\* table sauces: slug -> row; "chili" has been switched off
Sauces ==
  ( "garlic" :> [ price |-> 50, isActive |-> TRUE ] ) @@
  ( "bbq" :> [ price |-> 0, isActive |-> TRUE ] ) @@
  ( "chili" :> [ price |-> 70, isActive |-> FALSE ] )

NoSlug == ""

ExtraUnitPrice == 30
DefaultDeliveryFee == 250
CashEstimateMinutes == 45
CardEstimateMinutes == 30

VARIABLES
  orders,      \* table orders: sequence of rows, id = index
  invoices,    \* table invoices: sequence of rows, id = index
  payments,    \* table payments: sequence of rows, id = index
  settings,    \* table settings: key -> value, only the keys that have a row
  restaurant,  \* table restaurants: first row, or None
  flow,        \* the placement request each worker slot is running
  resend,      \* the admin resend-email request in flight
  emitted,     \* number of io.emit calls so far
  lastEvent,   \* payload of the latest io.emit
  last,        \* the latest admin / webhook request and its answer
  now,         \* wall clock, minutes
  year         \* calendar year of the wall clock, as an offset

vars ==
  << orders, invoices, payments, settings, restaurant, flow, resend,
     emitted, lastEvent, last, now, year >>

(***************************************************************************)
(* src/utils/invoice-generator.js                                          *)
(***************************************************************************)
Lower(pm) ==
  CASE pm = "CASH" -> "cash"
    [] pm = "CARD" -> "card"
    [] pm = "ONLINE" -> "online"
    [] pm = "TRANSFER" -> "transfer"

CounterKey(paymentMethod, yr) == << "invoice_counter", Lower(paymentMethod), yr >>

RECURSIVE Pow10(_)
Pow10(n) == IF n = 0 THEN 1 ELSE 10 * Pow10(n - 1)

RECURSIVE NumDigits(_)
NumDigits(n) == IF n < 10 THEN 1 ELSE 1 + NumDigits(n \div 10)

PadWidth == 4

InvoicePrefix(paymentMethod) == IF paymentMethod = "CASH" THEN 1250 ELSE 2250

\* `${prefix}${counter.toString().padStart(4, '0')}` read as a decimal number
generateInvoiceNumber(paymentMethod, yr, counter) ==
  LET width == IF NumDigits(counter) > PadWidth THEN NumDigits(counter) ELSE PadWidth
  IN  InvoicePrefix(paymentMethod) * Pow10(width) + counter

\* a counter that takes an absent row for a row holding 1
NextCounterAbsentIsOne(setting) == IF IsSome(setting) THEN Val(setting) + 1 ELSE 2

\* nextCounter as computed from the row read by findUnique
NextCounter(setting) == IF IsSome(setting) THEN Val(setting) + 1 ELSE 1

VatRatePercent == 19

\* grossAmount is the double the handler holds; each Math.round(x * 100) / 100
\* is kept as the whole number of cents Math.round yields
calculateVATBreakdown(grossAmount) ==
  LET vatRate == DoubleOfRatio(VatRatePercent, 100)
      vatAmount == MathRound(DoubleTimes(DoubleProduct(grossAmount, vatRate), 100))
      netAmount == MathRound(DoubleTimes(DoubleAbsDiff(grossAmount,
                                                       DoubleOfCents(vatAmount)),
                                         100))
  IN  [ netAmount |-> netAmount,
        vatAmount |-> vatAmount,
        grossAmount |-> MathRound(DoubleTimes(grossAmount, 100)) ]

(***************************************************************************)
(* Pricing loop of the placement handlers.                                 *)
(***************************************************************************)
\* a fries pricing that ignores includesSides
FriesAddonAlwaysCharged(menuItem, item) ==
  IF item.friesUpgrade \in DOMAIN FriesOptions
  THEN FriesOptions[item.friesUpgrade].priceAddon * item.quantity
  ELSE 0

FriesAddon(menuItem, item) ==
  IF item.friesUpgrade = NoSlug THEN 0
  ELSE IF item.friesUpgrade \notin DOMAIN FriesOptions THEN 0
  ELSE IF menuItem.includesSides
       THEN IF item.friesUpgrade # "regular" /\ item.friesUpgrade # "regular-fries"
            THEN FriesOptions[item.friesUpgrade].priceAddon * item.quantity
            ELSE 0
       ELSE FriesOptions[item.friesUpgrade].priceAddon * item.quantity

ExtrasAddon(item) ==
  IF item.extras > 0 THEN item.extras * ExtraUnitPrice * item.quantity ELSE 0

\* a sauce block that charges the catalogue price of a resolved sauce
SauceAddonCatalogPrice(item) ==
  IF item.selectedSauce \in DOMAIN Sauces
  THEN Sauces[item.selectedSauce].price * item.quantity
  ELSE 0

\* the sauce block: prisma.sauce.findFirst by slug, and for a sauce found a
\* customization string; itemTotal is not touched in either case
SauceAddon(item) ==
  IF item.selectedSauce # NoSlug
  THEN IF item.selectedSauce \in DOMAIN Sauces THEN 0 ELSE 0
  ELSE 0

ItemTotal(item) ==
  LET menuItem == MenuItems[item.menuItemId]
  IN  menuItem.price * item.quantity + FriesAddon(menuItem, item) + SauceAddon(item)
        + ExtrasAddon(item)

OrderItem(item) ==
  [ menuItemId |-> item.menuItemId,
    quantity |-> item.quantity,
    unitPrice |-> MenuItems[item.menuItemId].price,
    totalPrice |-> ItemTotal(item),
    selectedSauce |-> item.selectedSauce,
    friesUpgrade |-> item.friesUpgrade,
    extras |-> item.extras ]

\* a loop that adds only the base price of each line to the subtotal
RECURSIVE PriceItemsBasePrice(_, _, _)
PriceItemsBasePrice(items, subtotal, orderItems) ==
  IF items = << >>
  THEN [ ok |-> TRUE, missing |-> 0, subtotal |-> subtotal, orderItems |-> orderItems ]
  ELSE IF Head(items).menuItemId \notin DOMAIN MenuItems
       THEN [ ok |-> FALSE, missing |-> Head(items).menuItemId, subtotal |-> subtotal,
              orderItems |-> orderItems ]
       ELSE PriceItemsBasePrice(
              Tail(items),
              subtotal + MenuItems[Head(items).menuItemId].price * Head(items).quantity,
              Append(orderItems, OrderItem(Head(items))))

\* a loop that skips the lines whose menu item is unknown
RECURSIVE PriceItemsSkipUnknown(_, _, _)
PriceItemsSkipUnknown(items, subtotal, orderItems) ==
  IF items = << >>
  THEN [ ok |-> TRUE, missing |-> 0, subtotal |-> subtotal, orderItems |-> orderItems ]
  ELSE IF Head(items).menuItemId \notin DOMAIN MenuItems
       THEN PriceItemsSkipUnknown(Tail(items), subtotal, orderItems)
       ELSE PriceItemsSkipUnknown(Tail(items), subtotal + ItemTotal(Head(items)),
                                  Append(orderItems, OrderItem(Head(items))))

\* the for-loop over items: stops at the first unknown menu item
RECURSIVE PriceItems(_, _, _)
PriceItems(items, subtotal, orderItems) ==
  IF items = << >>
  THEN [ ok |-> TRUE, missing |-> 0, subtotal |-> subtotal, orderItems |-> orderItems ]
  ELSE IF Head(items).menuItemId \notin DOMAIN MenuItems
       THEN [ ok |-> FALSE, missing |-> Head(items).menuItemId, subtotal |-> subtotal,
              orderItems |-> orderItems ]
       ELSE PriceItems(Tail(items), subtotal + ItemTotal(Head(items)),
                       Append(orderItems, OrderItem(Head(items))))

\* the same loop on the numbers the handler holds: itemTotal and subtotal as
\* doubles, every `*` and `+=` rounded
FriesCharged(menuItem, item) ==
  /\ item.friesUpgrade # NoSlug
  /\ item.friesUpgrade \in DOMAIN FriesOptions
  /\ menuItem.includesSides
       => (item.friesUpgrade # "regular" /\ item.friesUpgrade # "regular-fries")

ItemTotalDouble(item) ==
  LET menuItem == MenuItems[item.menuItemId]
      base == DoubleTimes(DoubleOfCents(menuItem.price), item.quantity)
      fries == IF FriesCharged(menuItem, item)
               THEN DoublePlus(base,
                               DoubleTimes(DoubleOfCents(FriesOptions[item.friesUpgrade].priceAddon),
                                           item.quantity))
               ELSE base
  IN  IF item.extras > 0
      THEN LET extrasCost == DoubleTimes(DoubleOfCents(ExtraUnitPrice), item.extras)
           IN  DoublePlus(fries, DoubleTimes(extrasCost, item.quantity))
      ELSE fries

RECURSIVE SubtotalDouble(_, _)
SubtotalDouble(items, subtotal) ==
  IF items = << >> THEN subtotal
  ELSE SubtotalDouble(Tail(items), DoublePlus(subtotal, ItemTotalDouble(Head(items))))

\* restaurant?.deliveryFee || 2.50 for DELIVERY, else 0
DeliveryFee(orderType, rest) ==
  IF orderType = "DELIVERY"
  THEN IF IsSome(rest) /\ Val(rest).deliveryFee # 0
       THEN Val(rest).deliveryFee
       ELSE DefaultDeliveryFee
  ELSE 0

\* const total = subtotal + deliveryFee, as doubles
TotalDouble(items, orderType, rest) ==
  DoublePlus(SubtotalDouble(items, << >>), DoubleOfCents(DeliveryFee(orderType, rest)))

(***************************************************************************)
(* Rows and requests.                                                      *)
(***************************************************************************)
NoAddress == ""

IdleFlow ==
  [ pc |-> "idle", kind |-> "none", paymentMethod |-> "CASH",
    customerEmail |-> NoEmail, intent |-> 0, orderId |-> 0, yr |-> 0, setting |-> None,
    counter |-> 0, invoiceId |-> 0, emailResult |-> "none",
    confirmation |-> "none", resp |-> "none", error |-> None,
    items |-> << >>, amount |-> 0, total |-> 0, intentStatus |-> "none" ]

IdleResend ==
  [ pc |-> "idle", invoiceId |-> 0, emailAttempts |-> 0, emailResult |-> "none",
    resp |-> "none" ]

NoEvent == [ type |-> "none", id |-> 0, orderNumber |-> None, status |-> "none" ]

NoRequest == [ seq |-> 0, op |-> "none", id |-> 0, arg |-> None, resp |-> "none" ]

\* generateOrderNumber: PCB-{date}-{time}-{random}; the random suffix of two
\* orders is taken to differ, so the unique index on orderNumber never rejects
generateOrderNumber(t, id) == Some(<< "PCB", t, id >>)

\* `!customerName || !customerPhone || !items || items.length === 0`, then
\* `orderType === 'DELIVERY' && !deliveryAddress`
ValidOrderRequest(req) ==
  /\ req.customerName # ""
  /\ req.customerPhone # ""
  /\ req.items # << >>
  /\ ~(req.orderType = "DELIVERY" /\ req.deliveryAddress = NoAddress)

\* the error of the 400 answered when the validation fails
ValidationError(req) ==
  IF req.customerName = "" \/ req.customerPhone = "" \/ req.items = << >>
  THEN << "Missing required fields" >>
  ELSE << "Delivery address is required" >>

MenuItemNotFound(menuItemId) == << "Menu item not found", menuItemId >>

\* paymentMethod || 'CASH'
EffectivePaymentMethod(req) ==
  IF req.paymentMethod = "" THEN "CASH" ELSE req.paymentMethod

\* data of prisma.order.create in POST /api/orders
CashOrderRow(req, priced, rest, t, id) ==
  LET deliveryFee == DeliveryFee(req.orderType, rest)
  IN  [ orderNumber |-> generateOrderNumber(t, id),
        status |-> "PENDING",
        orderType |-> req.orderType,
        paymentMethod |-> EffectivePaymentMethod(req),
        paymentStatus |-> "PENDING",
        customerEmail |-> req.customerEmail,
        deliveryAddress |->
          IF req.orderType = "DELIVERY" THEN req.deliveryAddress ELSE NoAddress,
        subtotal |-> priced.subtotal,
        deliveryFee |-> deliveryFee,
        total |-> priced.subtotal + deliveryFee,
        items |-> priced.orderItems,
        estimatedTime |-> Some(t + CashEstimateMinutes),
        confirmedAt |-> None,
        acceptedAt |-> None,
        preparingAt |-> None,
        readyAt |-> None,
        deliveredAt |-> None ]

\* data of prisma.invoice.create (both flows); total is the handler's double
InvoiceRow(order, total, orderId, paymentMethod, yr, counter) ==
  LET vatBreakdown == calculateVATBreakdown(total)
  IN  [ invoiceNumber |-> generateInvoiceNumber(paymentMethod, yr, counter),
        orderId |-> orderId,
        customerEmail |-> order.customerEmail,
        subtotal |-> order.subtotal,
        deliveryFee |-> order.deliveryFee,
        totalNet |-> vatBreakdown.netAmount,
        vatAmount |-> vatBreakdown.vatAmount,
        totalGross |-> vatBreakdown.grossAmount,
        paymentMethod |-> paymentMethod,
        orderItems |-> order.items,
        emailSent |-> FALSE,
        emailSentAt |-> None,
        emailAttempts |-> 0,
        createdYear |-> yr ]

\* the invoices table: orderId is one-to-one with Order; invoiceNumber carries
\* no uniqueness of its own (numbers repeat across years)
InvoiceInsertAllowed(invs, row) ==
  \A i \in DOMAIN invs : invs[i].orderId # row.orderId

SetFlow(p, f) == flow' = [ flow EXCEPT ![p] = f ]

Emit(payload) ==
  /\ emitted' = emitted + 1
  /\ lastEvent' = payload

NewOrderEvent(id, order) ==
  [ type |-> "newOrder", id |-> id, orderNumber |-> order.orderNumber,
    status |-> order.status ]

(***************************************************************************)
(* POST /api/orders, step 1: validation, pricing loop, prisma.order.create *)
(***************************************************************************)
CashPlace(p, req) ==
  /\ flow[p].pc \in { "idle", "done" }
  /\ LET priced == PriceItems(req.items, 0, << >>)
         id == Len(orders) + 1
         started == [ IdleFlow EXCEPT !.kind = "cash",
                                      !.paymentMethod = EffectivePaymentMethod(req),
                                      !.customerEmail = req.customerEmail,
                                      !.items = req.items ]
         rejected == [ started EXCEPT !.pc = "done", !.resp = "400" ]
     IN  IF ~ValidOrderRequest(req)
         THEN /\ SetFlow(p, [ rejected EXCEPT !.error = ValidationError(req) ])
              /\ UNCHANGED orders
         ELSE IF ~priced.ok
         THEN /\ SetFlow(p, [ rejected EXCEPT !.error = MenuItemNotFound(priced.missing) ])
              /\ UNCHANGED orders
         ELSE /\ orders' = Append(orders, CashOrderRow(req, priced, restaurant, now, id))
              /\ SetFlow(p, [ started EXCEPT
                                !.pc = "counterRead", !.orderId = id,
                                !.total = priced.subtotal
                                            + DeliveryFee(req.orderType, restaurant) ])
  /\ UNCHANGED << invoices, payments, settings, restaurant, resend, emitted,
                  lastEvent, last, now, year >>

(***************************************************************************)
(* getNextInvoiceCounter: findUnique, then update or create                *)
(***************************************************************************)
ReadCounter(p) ==
  /\ flow[p].pc = "counterRead"
  /\ LET key == CounterKey(flow[p].paymentMethod, year)
     IN  SetFlow(p, [ flow[p] EXCEPT
                        !.pc = "counterWrite",
                        !.yr = year,
                        !.setting = IF key \in DOMAIN settings
                                    THEN Some(settings[key]) ELSE None ])
  /\ UNCHANGED << orders, invoices, payments, settings, restaurant, resend,
                  emitted, lastEvent, last, now, year >>

\* an invoice error after which the invoice e-mail is still attempted
AfterInvoiceErrorEmails(f) ==
  IF f.kind = "cash" THEN [ f EXCEPT !.pc = "email" ] ELSE [ f EXCEPT !.pc = "done" ]

\* where the flow goes when the invoice try-block throws
AfterInvoiceError(f) ==
  IF f.kind = "cash" THEN [ f EXCEPT !.pc = "respond" ] ELSE [ f EXCEPT !.pc = "done" ]

WriteCounter(p) ==
  /\ flow[p].pc = "counterWrite"
  /\ LET key == CounterKey(flow[p].paymentMethod, flow[p].yr)
         nextCounter == NextCounter(flow[p].setting)
     IN  IF IsSome(flow[p].setting)
         THEN \* prisma.setting.update({ where: { key }, data: { value } })
              /\ settings' = [ settings EXCEPT ![key] = nextCounter ]
              /\ SetFlow(p, [ flow[p] EXCEPT !.pc = "invoiceCreate",
                                             !.counter = nextCounter ])
         ELSE IF key \in DOMAIN settings
         THEN \* prisma.setting.create rejected by the unique index on key
              /\ SetFlow(p, AfterInvoiceError(flow[p]))
              /\ UNCHANGED settings
         ELSE /\ settings' = settings @@ (key :> nextCounter)
              /\ SetFlow(p, [ flow[p] EXCEPT !.pc = "invoiceCreate",
                                             !.counter = nextCounter ])
  /\ UNCHANGED << orders, invoices, payments, restaurant, resend, emitted,
                  lastEvent, last, now, year >>

\* prisma.invoice.create; dbOk = FALSE is the insert being rejected
CreateInvoice(p, dbOk) ==
  /\ flow[p].pc = "invoiceCreate"
  /\ LET order == orders[flow[p].orderId]
         row == InvoiceRow(order,
                           TotalDouble(flow[p].items, order.orderType, restaurant),
                           flow[p].orderId, flow[p].paymentMethod, flow[p].yr,
                           flow[p].counter)
     IN  IF dbOk /\ InvoiceInsertAllowed(invoices, row)
         THEN /\ invoices' = Append(invoices, row)
              /\ SetFlow(p, [ flow[p] EXCEPT
                                !.invoiceId = Len(invoices) + 1,
                                !.pc = IF flow[p].kind = "cash" THEN "pdf" ELSE "done" ])
         ELSE /\ SetFlow(p, AfterInvoiceError(flow[p]))
              /\ UNCHANGED invoices
  /\ UNCHANGED << orders, payments, settings, restaurant, resend, emitted,
                  lastEvent, last, now, year >>

(***************************************************************************)
(* POST /api/orders: PDF, invoice e-mail, newOrder, confirmation, response *)
(***************************************************************************)
GeneratePdf(p, pdfOk) ==
  /\ flow[p].pc = "pdf"
  /\ SetFlow(p, [ flow[p] EXCEPT
                    !.pc = IF ~pdfOk THEN "respond"
                           ELSE IF flow[p].customerEmail # NoEmail THEN "email"
                           ELSE "respond" ])
  /\ UNCHANGED << orders, invoices, payments, settings, restaurant, resend,
                  emitted, lastEvent, last, now, year >>

\* invoice row after the e-mail attempt of the placement, by the attempt's outcome
PlacementEmailBookkeeping(inv, result, t) ==
  CASE result = "sent" ->
         [ inv EXCEPT !.emailSent = TRUE, !.emailSentAt = Some(t), !.emailAttempts = 1 ]
    [] result = "threw" -> [ inv EXCEPT !.emailAttempts = 1 ]
    [] OTHER -> inv

\* await sendInvoiceEmail(...): resolved { success: true }, resolved
\* { success: false }, or rejected
SendInvoiceEmail(p, result) ==
  /\ flow[p].pc = "email"
  /\ SetFlow(p, [ flow[p] EXCEPT
                    !.emailResult = result,
                    !.pc = IF result = "failed" THEN "respond" ELSE "emailUpdate" ])
  /\ UNCHANGED << orders, invoices, payments, settings, restaurant, resend,
                  emitted, lastEvent, last, now, year >>

\* await prisma.invoice.update(...) of either branch
UpdateInvoiceEmail(p) ==
  /\ flow[p].pc = "emailUpdate"
  /\ invoices' = [ invoices EXCEPT ![flow[p].invoiceId] =
                     PlacementEmailBookkeeping(@, flow[p].emailResult, now) ]
  /\ SetFlow(p, [ flow[p] EXCEPT !.pc = "respond" ])
  /\ UNCHANGED << orders, payments, settings, restaurant, resend, emitted,
                  lastEvent, last, now, year >>

\* the confirmation e-mail's failure escaping to the handler's outer catch
PlacementResponseUncaught(confirmation) ==
  IF confirmation = "failed" THEN "500" ELSE "201"

\* status answered after the confirmation e-mail attempt: its failure is caught
PlacementResponse(confirmation) == "201"

\* io.emit('newOrder'), sendOrderConfirmationEmail in its own try/catch, 201
Respond(p, confirmation) ==
  /\ flow[p].pc = "respond"
  /\ Emit(NewOrderEvent(flow[p].orderId, orders[flow[p].orderId]))
  /\ LET c == IF flow[p].customerEmail # NoEmail THEN confirmation ELSE "none"
     IN  SetFlow(p, [ flow[p] EXCEPT !.pc = "done", !.confirmation = c,
                                     !.resp = PlacementResponse(c) ])
  /\ UNCHANGED << orders, invoices, payments, settings, restaurant, resend,
                  last, now, year >>

(***************************************************************************)
(* POST /api/stripe/confirm-payment                                        *)
(***************************************************************************)
AmountTolerance == 1

\* Math.abs(paymentIntent.amount / 100 - total) > 0.01, on doubles
AmountMismatch(amount, total) ==
  Less(DoubleOfCents(AmountTolerance), DoubleAbsDiff(DoubleOfCents(amount), total))

\* data of prisma.order.create in confirm-payment
PaidOrderRow(req, priced, rest, t, id) ==
  LET deliveryFee == DeliveryFee(req.orderType, rest)
  IN  [ orderNumber |-> generateOrderNumber(t, id),
        status |-> "PENDING",
        orderType |-> req.orderType,
        paymentMethod |-> "CARD",
        paymentStatus |-> "COMPLETED",
        customerEmail |-> req.customerEmail,
        deliveryAddress |->
          IF req.orderType = "DELIVERY" THEN req.deliveryAddress ELSE NoAddress,
        subtotal |-> priced.subtotal,
        deliveryFee |-> deliveryFee,
        total |-> priced.subtotal + deliveryFee,
        items |-> priced.orderItems,
        estimatedTime |-> Some(t + CardEstimateMinutes),
        confirmedAt |-> Some(t),
        acceptedAt |-> None,
        preparingAt |-> None,
        readyAt |-> None,
        deliveredAt |-> None ]

PaymentRow(orderId, order, paymentIntentId) ==
  [ orderId |-> orderId, paymentMethod |-> "CARD", status |-> "COMPLETED",
    amount |-> order.total, transactionId |-> paymentIntentId ]

\* a status check that also lets an intent still in processing through
PaymentCompletedOrProcessing(intent) == intent.status \in { "succeeded", "processing" }

\* the negation of paymentIntent.status !== 'succeeded'
PaymentCompleted(intent) == intent.status = "succeeded"

\* step 1: validation, stripe.paymentIntents.retrieve, pricing loop, amount
\* check, prisma.order.create.  paymentIntentId 0 is a missing id, orderData
\* None a missing body; intent is what Stripe answers for the id.
ConfirmPayment(p, paymentIntentId, orderData, intent) ==
  /\ flow[p].pc \in { "idle", "done" }
  /\ LET started == [ IdleFlow EXCEPT !.kind = "paid", !.paymentMethod = "CARD",
                                      !.intent = paymentIntentId ]
         rejected == [ started EXCEPT !.pc = "done", !.resp = "400" ]
     IN  IF paymentIntentId = 0 \/ orderData = None
         THEN /\ SetFlow(p, [ rejected EXCEPT
                                !.error = << "Payment Intent ID and order data are required" >> ])
              /\ UNCHANGED orders
         ELSE IF ~PaymentCompleted(intent)
         THEN /\ SetFlow(p, [ rejected EXCEPT
                                !.error = << "Payment not completed" >>,
                                !.items = Val(orderData).items,
                                !.amount = intent.amount,
                                !.intentStatus = intent.status ])
              /\ UNCHANGED orders
         ELSE LET req == Val(orderData)
                  priced == PriceItems(req.items, 0, << >>)
                  total == priced.subtotal + DeliveryFee(req.orderType, restaurant)
                  id == Len(orders) + 1
                  retrieved == [ started EXCEPT !.items = req.items,
                                                !.amount = intent.amount,
                                                !.intentStatus = intent.status ]
              IN  IF ~priced.ok
                  THEN /\ SetFlow(p, [ retrieved EXCEPT
                                         !.pc = "done", !.resp = "400",
                                         !.error = MenuItemNotFound(priced.missing) ])
                       /\ UNCHANGED orders
                  ELSE IF AmountMismatch(intent.amount,
                                         TotalDouble(req.items, req.orderType, restaurant))
                  THEN /\ SetFlow(p, [ retrieved EXCEPT
                                         !.pc = "done", !.resp = "400", !.total = total,
                                         !.error = << "Payment amount does not match order total" >> ])
                       /\ UNCHANGED orders
                  ELSE /\ orders' = Append(orders,
                                           PaidOrderRow(req, priced, restaurant, now, id))
                       /\ SetFlow(p, [ retrieved EXCEPT
                                         !.pc = "payment",
                                         !.customerEmail = req.customerEmail,
                                         !.orderId = id, !.total = total ])
  /\ UNCHANGED << invoices, payments, settings, restaurant, resend, emitted,
                  lastEvent, last, now, year >>

\* step 2: prisma.payment.create, then without a further await:
\* setImmediate(invoice task), io.emit('newOrder'), res.status(201)
CreatePayment(p) ==
  /\ flow[p].pc = "payment"
  /\ payments' = Append(payments, PaymentRow(flow[p].orderId, orders[flow[p].orderId],
                                             flow[p].intent))
  /\ Emit(NewOrderEvent(flow[p].orderId, orders[flow[p].orderId]))
  /\ SetFlow(p, [ flow[p] EXCEPT !.pc = "counterRead", !.resp = "201" ])
  /\ UNCHANGED << orders, invoices, settings, restaurant, resend, last, now, year >>

(***************************************************************************)
(* Admin order lifecycle handlers.  prisma.order.update of an id without a *)
(* row rejects, and the error middleware answers 500.                      *)
(***************************************************************************)
StatusEvent(type, id, order) ==
  [ type |-> type, id |-> id, orderNumber |-> order.orderNumber,
    status |-> order.status ]

\* seq alternates, so that two equal requests in a row are told apart
Answer(op, id, arg, resp) ==
  last' = [ seq |-> 1 - last.seq, op |-> op, id |-> id, arg |-> arg, resp |-> resp ]

\* an update handler without validation: update the row, emit, answer 200
UpdateAndEmit(op, arg, id, row, eventType) ==
  IF id \notin DOMAIN orders
  THEN /\ Answer(op, id, arg, "500")
       /\ UNCHANGED << orders, emitted, lastEvent >>
  ELSE /\ orders' = [ orders EXCEPT ![id] = row ]
       /\ Emit(StatusEvent(eventType, id, row))
       /\ Answer(op, id, arg, "200")

ValidStatuses ==
  { "PENDING", "CONFIRMED", "PREPARING", "READY", "DELIVERED", "CANCELLED" }

\* a check that lets every status value through
ValidStatusAny(status) == TRUE

\* validStatuses.includes(status)
ValidStatus(status) == status \in ValidStatuses

\* updateData of PATCH /api/admin/orders/:id/status applied to the row
StatusUpdateData(order, status, estimatedTime, t) ==
  LET a == [ order EXCEPT !.status = status ]
      b == IF IsSome(estimatedTime) THEN [ a EXCEPT !.estimatedTime = estimatedTime ]
           ELSE a
  IN  CASE status = "CONFIRMED" -> [ b EXCEPT !.confirmedAt = Some(t) ]
        [] status = "PREPARING" -> [ b EXCEPT !.preparingAt = Some(t) ]
        [] status = "READY" -> [ b EXCEPT !.readyAt = Some(t) ]
        [] status = "DELIVERED" -> [ b EXCEPT !.deliveredAt = Some(t) ]
        [] OTHER -> b

\* PATCH /api/admin/orders/:id/status
SetStatus(id, status, estimatedTime) ==
  /\ IF ~ValidStatus(status)
     THEN /\ Answer("status", id, Some(status), "400")
          /\ UNCHANGED << orders, emitted, lastEvent >>
     ELSE UpdateAndEmit("status", Some(status), id,
                        StatusUpdateData(orders[id], status, estimatedTime, now),
                        IF status = "DELIVERED" THEN "orderCompleted"
                        ELSE "orderStatusUpdate")
  /\ UNCHANGED << invoices, payments, settings, restaurant, flow, resend, now, year >>

CancelData(order) == [ order EXCEPT !.status = "CANCELLED" ]

\* PUT /api/admin/orders/:id/cancel
Cancel(id) ==
  /\ UpdateAndEmit("cancel", None, id,
                   CancelData(orders[id]),
                   "orderStatusUpdate")
  /\ UNCHANGED << invoices, payments, settings, restaurant, flow, resend, now, year >>

\* the check without its `estimatedMinutes < 1` half
ValidEstimateTruthy(estimatedMinutes) ==
  /\ IsSome(estimatedMinutes)
  /\ Val(estimatedMinutes) # 0

\* !estimatedMinutes || estimatedMinutes < 1, negated
ValidEstimate(estimatedMinutes) ==
  /\ IsSome(estimatedMinutes)
  /\ Val(estimatedMinutes) # 0
  /\ ~(Val(estimatedMinutes) < 1)

\* data of the accept handler's update, estimatedMinutes * 60000 ms later
AcceptData(order, estimatedMinutes, t) ==
  [ order EXCEPT !.status = "CONFIRMED", !.acceptedAt = Some(t),
                 !.estimatedTime = Some(t + estimatedMinutes) ]

\* PUT /api/admin/orders/:id/accept
Accept(id, estimatedMinutes) ==
  /\ IF ~ValidEstimate(estimatedMinutes)
     THEN /\ Answer("accept", id, estimatedMinutes, "400")
          /\ UNCHANGED << orders, emitted, lastEvent >>
     ELSE UpdateAndEmit("accept", estimatedMinutes, id,
                        AcceptData(orders[id], Val(estimatedMinutes), now),
                        "orderStatusUpdate")
  /\ UNCHANGED << invoices, payments, settings, restaurant, flow, resend, now, year >>

ReadyData(order, t) == [ order EXCEPT !.status = "READY", !.readyAt = Some(t) ]

\* PUT /api/admin/orders/:id/ready
Ready(id) ==
  /\ UpdateAndEmit("ready", None, id,
                   ReadyData(orders[id], now),
                   "orderStatusUpdate")
  /\ UNCHANGED << invoices, payments, settings, restaurant, flow, resend, now, year >>

DeliveryData(order) == [ order EXCEPT !.status = "OUT_FOR_DELIVERY" ]

\* PUT /api/admin/orders/:id/delivery
Delivery(id) ==
  /\ UpdateAndEmit("delivery", None, id,
                   DeliveryData(orders[id]),
                   "orderStatusUpdate")
  /\ UNCHANGED << invoices, payments, settings, restaurant, flow, resend, now, year >>

CompleteData(order, t) ==
  [ order EXCEPT !.status = "DELIVERED", !.deliveredAt = Some(t) ]

\* PUT /api/admin/orders/:id/complete
Complete(id) ==
  /\ UpdateAndEmit("complete", None, id,
                   CompleteData(orders[id], now),
                   "orderCompleted")
  /\ UNCHANGED << invoices, payments, settings, restaurant, flow, resend, now, year >>

(***************************************************************************)
(* POST /api/webhooks/stripe                                               *)
(***************************************************************************)
\* prisma.payment.findFirst({ where: { transactionId } }): 0 when none
FindPayment(transactionId) ==
  LET found == { i \in DOMAIN payments : payments[i].transactionId = transactionId }
  IN  IF found = {} THEN 0 ELSE CHOOSE i \in found : \A j \in found : i <= j

\* case 'payment_intent.succeeded'
WebhookSucceeded(paymentIntentId) ==
  /\ LET pay == FindPayment(paymentIntentId)
     IN  IF pay # 0 /\ orders[payments[pay].orderId].status = "PENDING"
         THEN LET id == payments[pay].orderId
                  row == [ orders[id] EXCEPT !.status = "PENDING",
                                             !.confirmedAt = Some(now) ]
              IN  /\ orders' = [ orders EXCEPT ![id] = row ]
                  /\ Emit(StatusEvent("orderStatusUpdate", id, row))
         ELSE UNCHANGED << orders, emitted, lastEvent >>
  /\ Answer("payment_intent.succeeded", paymentIntentId, None, "200")
  /\ UNCHANGED << invoices, payments, settings, restaurant, flow, resend, now, year >>

\* case 'payment_intent.payment_failed'
WebhookFailed(paymentIntentId) ==
  /\ LET pay == FindPayment(paymentIntentId)
     IN  IF pay # 0
         THEN /\ payments' = [ payments EXCEPT ![pay].status = "FAILED" ]
              /\ orders' = [ orders EXCEPT ![payments[pay].orderId].status = "CANCELLED" ]
         ELSE UNCHANGED << orders, payments >>
  /\ Answer("payment_intent.payment_failed", paymentIntentId, None, "200")
  /\ UNCHANGED << invoices, settings, restaurant, flow, resend, emitted, lastEvent,
                  now, year >>

(***************************************************************************)
(* POST /api/admin/invoices/:id/resend-email                               *)
(***************************************************************************)
\* findUnique, target e-mail, PDF, sendInvoiceEmail: everything up to the
\* bookkeeping update, which writes the emailAttempts read here plus one
ResendSend(id, email, pdfOk, result) ==
  /\ resend.pc \in { "idle", "done" }
  /\ resend' =
       IF id \notin DOMAIN invoices
       THEN [ IdleResend EXCEPT !.pc = "done", !.invoiceId = id, !.resp = "404" ]
       ELSE IF email = NoEmail /\ invoices[id].customerEmail = NoEmail
       THEN [ IdleResend EXCEPT !.pc = "done", !.invoiceId = id, !.resp = "400" ]
       ELSE IF ~pdfOk
       THEN [ IdleResend EXCEPT !.pc = "done", !.invoiceId = id, !.resp = "500" ]
       ELSE [ IdleResend EXCEPT !.pc = "update", !.invoiceId = id,
                                !.emailAttempts = invoices[id].emailAttempts,
                                !.emailResult = result ]
  /\ UNCHANGED << orders, invoices, payments, settings, restaurant, flow, emitted,
                  lastEvent, last, now, year >>

\* a bookkeeping update that also renumbers the invoice
ResendBookkeepingRenumber(inv, readAttempts, result, t) ==
  [ inv EXCEPT !.emailAttempts = readAttempts + 1,
               !.invoiceNumber = inv.invoiceNumber + 1 ]

\* invoice row after the bookkeeping update of a resend
ResendBookkeeping(inv, readAttempts, result, t) ==
  IF result = "sent"
  THEN [ inv EXCEPT !.emailSent = TRUE, !.emailSentAt = Some(t),
                    !.emailAttempts = readAttempts + 1 ]
  ELSE [ inv EXCEPT !.emailAttempts = readAttempts + 1 ]

\* a resend that issues the invoice again instead of updating its row
ResendReissueRows(invs, id, readAttempts, result, t) ==
  Append(invs, ResendBookkeeping(invs[id], readAttempts, result, t))

\* the rows of invoices after the resend's prisma.invoice.update
ResendUpdateRows(invs, id, readAttempts, result, t) ==
  [ invs EXCEPT ![id] = ResendBookkeeping(@, readAttempts, result, t) ]

ResendUpdate ==
  /\ resend.pc = "update"
  /\ invoices' = ResendUpdateRows(invoices, resend.invoiceId, resend.emailAttempts,
                                  resend.emailResult, now)
  /\ resend' = [ resend EXCEPT !.pc = "done",
                               !.resp = IF resend.emailResult = "sent" THEN "200"
                                        ELSE "500" ]
  /\ UNCHANGED << orders, payments, settings, restaurant, flow, emitted, lastEvent,
                  last, now, year >>

(***************************************************************************)
(* The wall clock.                                                         *)
(***************************************************************************)
Tick ==
  /\ now' = now + 1
  /\ UNCHANGED << orders, invoices, payments, settings, restaurant, flow, resend,
                  emitted, lastEvent, last, year >>

NewYear ==
  /\ year' = year + 1
  /\ UNCHANGED << orders, invoices, payments, settings, restaurant, flow, resend,
                  emitted, lastEvent, last, now >>

(***************************************************************************)
(* Initial state: empty tables, no request in flight.                      *)
(***************************************************************************)
InitWith(rest) ==
  /\ orders = << >>
  /\ invoices = << >>
  /\ payments = << >>
  /\ settings = << >>
  /\ restaurant = rest
  /\ flow = [ p \in Flows |-> IdleFlow ]
  /\ resend = IdleResend
  /\ emitted = 0
  /\ lastEvent = NoEvent
  /\ last = NoRequest
  /\ now = 0
  /\ year = 0

(***************************************************************************)
(* Inputs.                                                                 *)
(***************************************************************************)
Line(menuItemId, quantity, friesUpgrade, extras) ==
  [ menuItemId |-> menuItemId, quantity |-> quantity, friesUpgrade |-> friesUpgrade,
    extras |-> extras, selectedSauce |-> NoSlug ]

Request(paymentMethod, customerEmail, orderType, deliveryAddress, items) ==
  [ customerName |-> "Anna", customerPhone |-> "0900", customerEmail |-> customerEmail,
    orderType |-> orderType, deliveryAddress |-> deliveryAddress, items |-> items,
    paymentMethod |-> paymentMethod ]

Burger == << Line(1, 2, "sweet-potato-fries", 0) >>

\* total of the Burger cart as a PICKUP order
BurgerTotal == PriceItems(Burger, 0, << >>).subtotal

ConfiguredRestaurant == Some([ deliveryFee |-> 300 ])

(***************************************************************************)
(* Issuance: placement requests of both flows running concurrently.        *)
(***************************************************************************)
IssueRequests ==
  { Request(pm, email, "PICKUP", NoAddress, items) :
      pm \in { "", "CARD" }, email \in { NoEmail, "anna@example.sk" },
      items \in { Burger } }
  \cup { Request("", NoEmail, "PICKUP", NoAddress, << >>) }

IssueIntents ==
  { [ status |-> "succeeded", amount |-> BurgerTotal ],
    [ status |-> "requires_payment_method", amount |-> BurgerTotal ] }

EmailResults == { "sent", "failed", "threw" }
ConfirmationResults == { "sent", "failed" }

IssueInit == InitWith(ConfiguredRestaurant)

IssueNext ==
  \E p \in Flows :
    \/ \E req \in IssueRequests : Len(orders) < MaxIssueOrders /\ CashPlace(p, req)
    \/ \E intent \in IssueIntents :
         /\ Len(orders) < MaxIssueOrders
         /\ ConfirmPayment(p, 1, Some(Request("", NoEmail, "PICKUP", NoAddress, Burger)),
                           intent)
    \/ CreatePayment(p)
    \/ ReadCounter(p)
    \/ WriteCounter(p)
    \/ \E dbOk \in BOOLEAN : CreateInvoice(p, dbOk)
    \/ \E pdfOk \in BOOLEAN : GeneratePdf(p, pdfOk)
    \/ \E result \in EmailResults : SendInvoiceEmail(p, result)
    \/ UpdateInvoiceEmail(p)
    \/ \E c \in ConfirmationResults : Respond(p, c)

SpecIssue == IssueInit /\ [][IssueNext]_vars

(***************************************************************************)
(* Lifecycle: one placement at a time, the admin handlers, the payment     *)
(* webhooks and invoice resends.                                           *)
(***************************************************************************)
LifeRequests ==
  { Request("", "anna@example.sk", "PICKUP", NoAddress, Burger) }

LifeIntents == { [ status |-> "succeeded", amount |-> BurgerTotal ] }

\* ids of the rows there are, and one id without a row
OrderIds == 1 .. (Len(orders) + 1)
InvoiceIds == 1 .. (Len(invoices) + 1)

StatusInputs == ValidStatuses \cup { "REFUNDED", "OUT_FOR_DELIVERY", "BOGUS" }
\* bodies of the direct status-set: every status without an estimatedTime,
\* and a valid and an invalid status with one
StatusRequests ==
  { << status, None >> : status \in StatusInputs }
  \cup { << "PREPARING", Some(60) >>, << "BOGUS", Some(60) >> }
EstimateInputs == { None, Some(0 - 1), Some(0), Some(20) }
PaymentIntentIds == { 1, 2 }

LifePlacement(p) ==
  \/ \E req \in LifeRequests : Len(orders) < MaxLifeOrders /\ CashPlace(p, req)
  \/ \E intent \in LifeIntents :
       /\ Len(orders) < MaxLifeOrders
       /\ ConfirmPayment(p, 1, Some(Request("", NoEmail, "PICKUP", NoAddress, Burger)),
                         intent)
  \/ CreatePayment(p)
  \/ ReadCounter(p)
  \/ WriteCounter(p)
  \/ CreateInvoice(p, TRUE)
  \/ GeneratePdf(p, TRUE)
  \/ \E result \in { "sent", "failed" } : SendInvoiceEmail(p, result)
  \/ UpdateInvoiceEmail(p)
  \/ Respond(p, "sent")

LifeInit == InitWith(ConfiguredRestaurant)

LifeNext ==
  \/ LifePlacement(1)
  \/ \E id \in OrderIds, body \in StatusRequests :
       emitted < MaxEvents /\ SetStatus(id, body[1], body[2])
  \/ \E id \in OrderIds : emitted < MaxEvents /\ Cancel(id)
  \/ \E id \in OrderIds, estimatedMinutes \in EstimateInputs :
       emitted < MaxEvents /\ Accept(id, estimatedMinutes)
  \/ \E id \in OrderIds : emitted < MaxEvents /\ Ready(id)
  \/ \E id \in OrderIds : emitted < MaxEvents /\ Delivery(id)
  \/ \E id \in OrderIds : emitted < MaxEvents /\ Complete(id)
  \/ \E paymentIntentId \in PaymentIntentIds :
       emitted < MaxEvents /\ WebhookSucceeded(paymentIntentId)
  \/ \E paymentIntentId \in PaymentIntentIds :
       emitted < MaxEvents /\ WebhookFailed(paymentIntentId)
  \/ (now < MaxNow /\ Tick)

SpecLife == LifeInit /\ [][LifeNext]_vars

(***************************************************************************)
(* Sequential issuance: one placement after the other, over all payment    *)
(* methods, across a change of year.                                       *)
(***************************************************************************)
SeqRequests ==
  { Request(pm, NoEmail, "PICKUP", NoAddress, Burger) : pm \in PaymentMethod }

SeqInit == InitWith(ConfiguredRestaurant)

SeqNext ==
  \/ \E req \in SeqRequests : Len(orders) < MaxSeqOrders /\ CashPlace(1, req)
  \/ \E intent \in LifeIntents :
       /\ Len(orders) < MaxSeqOrders
       /\ ConfirmPayment(1, 1, Some(Request("", NoEmail, "PICKUP", NoAddress, Burger)),
                         intent)
  \/ CreatePayment(1)
  \/ ReadCounter(1)
  \/ WriteCounter(1)
  \/ \E dbOk \in BOOLEAN : CreateInvoice(1, dbOk)
  \/ \E pdfOk \in BOOLEAN : GeneratePdf(1, pdfOk)
  \/ Respond(1, "sent")
  \/ (year < MaxYear /\ flow[1].pc \in { "idle", "done" } /\ NewYear)

SpecSeq == SeqInit /\ [][SeqNext]_vars

(***************************************************************************)
(* Resends: placements, admin resends of their invoices, and the status    *)
(* transitions that end an order.                                          *)
(***************************************************************************)
ResendRequests ==
  { Request("", email, "PICKUP", NoAddress, Burger) :
      email \in { NoEmail, "anna@example.sk" } }

ResendInit == InitWith(ConfiguredRestaurant)

ResendNext ==
  \/ \E req \in ResendRequests : Len(orders) < MaxResendOrders /\ CashPlace(1, req)
  \/ ReadCounter(1)
  \/ WriteCounter(1)
  \/ CreateInvoice(1, TRUE)
  \/ GeneratePdf(1, TRUE)
  \/ \E result \in EmailResults : SendInvoiceEmail(1, result)
  \/ UpdateInvoiceEmail(1)
  \/ Respond(1, "sent")
  \/ \E id \in InvoiceIds, email \in { NoEmail, "anna@example.sk" },
        pdfOk \in BOOLEAN, result \in { "sent", "failed" } :
       /\ \A i \in DOMAIN invoices : invoices[i].emailAttempts < MaxAttempts
       /\ ResendSend(id, email, pdfOk, result)
  \/ ResendUpdate
  \/ \E id \in DOMAIN orders : emitted < MaxEvents /\ Cancel(id)
  \/ \E id \in DOMAIN orders : emitted < MaxEvents /\ Complete(id)

SpecResend == ResendInit /\ [][ResendNext]_vars

(***************************************************************************)
(* Race: concurrent placements of both flows that draw invoice numbers     *)
(* from the same counters, every other step succeeding.                    *)
(***************************************************************************)
RaceRequests ==
  { Request(pm, NoEmail, "PICKUP", NoAddress, Burger) : pm \in { "", "CARD" } }

RaceInit == InitWith(ConfiguredRestaurant)

RaceNext ==
  \E p \in Flows :
    \/ \E req \in RaceRequests : Len(orders) < MaxRaceOrders /\ CashPlace(p, req)
    \/ \E intent \in LifeIntents :
         /\ Len(orders) < MaxRaceOrders
         /\ ConfirmPayment(p, 1, Some(Request("", NoEmail, "PICKUP", NoAddress, Burger)),
                           intent)
    \/ CreatePayment(p)
    \/ ReadCounter(p)
    \/ WriteCounter(p)
    \/ CreateInvoice(p, TRUE)
    \/ GeneratePdf(p, TRUE)
    \/ Respond(p, "sent")

SpecRace == RaceInit /\ [][RaceNext]_vars

(***************************************************************************)
(* Pricing: placements of both flows over carts that exercise the fries    *)
(* policy, extras, unknown and withdrawn menu items, and the delivery      *)
(* address, followed by status transitions.                                *)
(***************************************************************************)
FriesInputs == { NoSlug, "regular", "regular-fries", "sweet-potato-fries", "curly-fries" }

\* one line with sides included and one without, per fries slug; menu item
\* ids 8 and 9 have no row
PriceCarts ==
  { << Line(1, 2, f, 0), Line(2, 1, f, 2) >> : f \in FriesInputs }
  \cup { << Line(8, 1, NoSlug, 0), Line(1, 1, NoSlug, 0) >>,
          << Line(1, 1, NoSlug, 0), Line(9, 1, NoSlug, 0) >>,
          << Line(3, 1, NoSlug, 0) >>,
          << Line(4, 1, "regular-fries", 0) >>,
          << >> }

Destinations ==
  { << "PICKUP", NoAddress >>, << "PICKUP", "Hlavna 1" >>,
    << "DELIVERY", "Hlavna 1" >>, << "DELIVERY", NoAddress >> }

PriceRequests ==
  { Request("", NoEmail, d[1], d[2], items) : d \in Destinations, items \in PriceCarts }

\* requests with an unknown menu item, sent also when the tables hold rows
ProbeRequests ==
  { Request("", NoEmail, "DELIVERY", "Hlavna 1", items) :
      items \in { << Line(8, 1, NoSlug, 0), Line(1, 1, NoSlug, 0) >>,
                  << Line(1, 1, NoSlug, 0), Line(9, 1, NoSlug, 0) >> } }

\* the order total in cents that the client was charged for a request
ChargedTotal(req) ==
  PriceItems(req.items, 0, << >>).subtotal + DeliveryFee(req.orderType, ConfiguredRestaurant)

PriceInit == InitWith(ConfiguredRestaurant)

PriceNext ==
  \/ \E req \in PriceRequests : Len(orders) < MaxPriceOrders /\ CashPlace(1, req)
  \/ \E req \in PriceRequests :
       /\ Len(orders) < MaxPriceOrders
       /\ ChargedTotal(req) > 0
       /\ ConfirmPayment(1, 1, Some(req),
                         [ status |-> "succeeded", amount |-> ChargedTotal(req) ])
  \/ \E req \in ProbeRequests : Len(orders) <= MaxPriceOrders /\ CashPlace(1, req)
  \/ \E req \in ProbeRequests :
       /\ Len(orders) <= MaxPriceOrders
       /\ ConfirmPayment(1, 2, Some(req),
                         [ status |-> "succeeded", amount |-> ChargedTotal(req) ])
  \/ CreatePayment(1)
  \/ ReadCounter(1)
  \/ WriteCounter(1)
  \/ CreateInvoice(1, TRUE)
  \/ GeneratePdf(1, TRUE)
  \/ Respond(1, "sent")
  \/ \E id \in DOMAIN orders : emitted < MaxEvents /\ Accept(id, Some(20))
  \/ \E id \in DOMAIN orders : emitted < MaxEvents /\ Cancel(id)
  \/ \E id \in DOMAIN orders : emitted < MaxEvents /\ Complete(id)

SpecPrice == PriceInit /\ [][PriceNext]_vars

(***************************************************************************)
(* Payment: paid placements whose captured amount is the order total, or   *)
(* one or two cents off it.                                                *)
(***************************************************************************)
PayCarts ==
  { Burger,
    << Line(2, 2, "regular", 0) >>,
    << Line(2, 1, NoSlug, 2), Line(1, 1, "regular-fries", 0) >> }

PayRequests ==
  { Request("", NoEmail, d[1], d[2], items) :
      d \in { << "PICKUP", NoAddress >>, << "DELIVERY", "Hlavna 1" >> },
      items \in PayCarts }

AmountOffsets == { 0 - 2, 0 - 1, 0, 1, 2 }

PayIntents(req) ==
  { [ status |-> st, amount |-> ChargedTotal(req) + d ] :
      st \in { "succeeded", "processing" }, d \in AmountOffsets }

PayInit == InitWith(ConfiguredRestaurant)

PayNext ==
  \/ \E req \in PayRequests : \E intent \in PayIntents(req) :
       /\ Len(orders) < MaxPayOrders
       /\ ConfirmPayment(1, Len(orders) + 1, Some(req), intent)
  \/ CreatePayment(1)
  \/ ReadCounter(1)
  \/ WriteCounter(1)
  \/ CreateInvoice(1, TRUE)

SpecPay == PayInit /\ [][PayNext]_vars

(***************************************************************************)
(* VAT: placements of both flows whose totals range over the multiples of  *)
(* a menu price, each followed by the issuance of its invoice.             *)
(***************************************************************************)
VatCarts == { << Line(2, q, NoSlug, 0) >> : q \in 1 .. MaxQuantity } \cup { Burger }

VatRequests == { Request("", NoEmail, "PICKUP", NoAddress, items) : items \in VatCarts }

VatInit == InitWith(ConfiguredRestaurant)

VatNext ==
  \/ \E req \in VatRequests : Len(orders) < MaxVatOrders /\ CashPlace(1, req)
  \/ \E req \in VatRequests :
       /\ Len(orders) < MaxVatOrders
       /\ ConfirmPayment(1, 1, Some(req),
                         [ status |-> "succeeded", amount |-> ChargedTotal(req) ])
  \/ CreatePayment(1)
  \/ ReadCounter(1)
  \/ WriteCounter(1)
  \/ CreateInvoice(1, TRUE)
  \/ GeneratePdf(1, TRUE)
  \/ Respond(1, "sent")

SpecVat == VatInit /\ [][VatNext]_vars

(***************************************************************************)
(* Charges: placements of both flows for pickup and delivery, with and     *)
(* without sauces and extras, against restaurants with a delivery fee, with *)
(* a delivery fee of 0, and without a restaurant row.                      *)
(***************************************************************************)
WithSauce(line, slug) == [ line EXCEPT !.selectedSauce = slug ]

\* "mayo" has no row in sauces
ChargeCarts ==
  { << WithSauce(Line(1, 2, "sweet-potato-fries", 2), "garlic"),
       WithSauce(Line(2, 1, NoSlug, 0), "mayo") >>,
    << WithSauce(Line(2, 3, NoSlug, 1), "chili") >>,
    << WithSauce(Line(2, 1, NoSlug, 0), "bbq") >>,
    Burger }

ChargeRequests ==
  { Request("", NoEmail, d[1], d[2], items) :
      d \in { << "PICKUP", NoAddress >>, << "DELIVERY", "Hlavna 1" >> },
      items \in ChargeCarts }

Restaurants == { None, Some([ deliveryFee |-> 0 ]), ConfiguredRestaurant }

ChargeInit == \E rest \in Restaurants : InitWith(rest)

ChargeNext ==
  \/ \E req \in ChargeRequests : Len(orders) < MaxChargeOrders /\ CashPlace(1, req)
  \/ \E req \in ChargeRequests :
       /\ Len(orders) < MaxChargeOrders
       /\ ConfirmPayment(1, 1, Some(req),
                         [ status |-> "succeeded",
                           amount |-> PriceItems(req.items, 0, << >>).subtotal
                                        + DeliveryFee(req.orderType, restaurant) ])
  \/ CreatePayment(1)
  \/ ReadCounter(1)
  \/ WriteCounter(1)
  \/ CreateInvoice(1, TRUE)
  \/ GeneratePdf(1, TRUE)
  \/ Respond(1, "sent")

SpecCharge == ChargeInit /\ [][ChargeNext]_vars

(***************************************************************************)
(* Properties.                                                             *)
(***************************************************************************)
Quiescent == \A p \in Flows : flow[p].pc \in { "idle", "done" }

InvoiceOf(orderId) == { i \in DOMAIN invoices : invoices[i].orderId = orderId }

\* C1: under every interleaving of the read and write steps of
\* getNextInvoiceCounter, no two placement flows on the same counter key
\* obtain the same counter value.
C1_DistinctCounters ==
  \A p, q \in Flows :
    ( /\ p # q
      /\ flow[p].counter > 0
      /\ flow[q].counter > 0
      /\ CounterKey(flow[p].paymentMethod, flow[p].yr)
           = CounterKey(flow[q].paymentMethod, flow[q].yr) )
    => flow[p].counter # flow[q].counter

\* C2: after any sequence of non-overlapping placements within one calendar
\* year, no two persisted invoices carry the same invoiceNumber.
C2_UniqueInvoiceNumbers ==
  \A i, j \in DOMAIN invoices :
    (i # j /\ invoices[i].createdYear = invoices[j].createdYear)
    => invoices[i].invoiceNumber # invoices[j].invoiceNumber

\* C3: whenever a placement has answered success, an invoice of its order
\* is persisted.
C3_InvoiceBeforeSuccess ==
  \A p \in Flows : flow[p].resp = "201" => InvoiceOf(flow[p].orderId) # {}

\* C4: each orderId is referenced by at most one persisted invoice, after
\* any sequence of placements, status transitions and invoice resends.
C4_OneInvoicePerOrder ==
  \A i, j \in DOMAIN invoices : invoices[i].orderId = invoices[j].orderId => i = j

C4_Witness ==
  /\ Len(invoices) = 2
  /\ resend.pc = "done"
  /\ resend.resp = "200"
  /\ \E id \in DOMAIN orders : orders[id].status = "DELIVERED"
  /\ \E id \in DOMAIN orders : orders[id].status = "CANCELLED"

\* C5: with no issuance in flight, every counter value from 1 up to the
\* persisted value of every counter key is the number of a persisted invoice
\* of that key.
C5_GapFree ==
  Quiescent =>
    \A key \in DOMAIN settings :
      \A c \in 1 .. settings[key] :
        \E i \in DOMAIN invoices :
          /\ CounterKey(invoices[i].paymentMethod, invoices[i].createdYear) = key
          /\ invoices[i].invoiceNumber
               = generateInvoiceNumber(invoices[i].paymentMethod,
                                       invoices[i].createdYear, c)

\* C6: a placement whose invoice e-mail or confirmation e-mail failed has
\* still answered success, and its order and its invoice are persisted.
C6_EmailFailureKeepsOrder ==
  \A p \in Flows :
    ( /\ flow[p].pc = "done"
      /\ \/ flow[p].emailResult \in { "failed", "threw" }
         \/ flow[p].confirmation = "failed" )
    => /\ flow[p].resp = "201"
       /\ flow[p].orderId \in DOMAIN orders
       /\ flow[p].emailResult \in { "failed", "threw" }
            => /\ flow[p].invoiceId \in DOMAIN invoices
               /\ invoices[flow[p].invoiceId].orderId = flow[p].orderId

C6_Witness ==
  \E p \in Flows :
    /\ flow[p].pc = "done"
    /\ flow[p].emailResult = "failed"
    /\ flow[p].confirmation = "failed"
    /\ flow[p].resp = "201"
    /\ InvoiceOf(flow[p].orderId) # {}

\* C7: once the placement's invoice e-mail attempt has failed (returned
\* success=false or thrown), the invoice's emailAttempts records the attempt
\* and emailSent is false.
C7_FailedAttemptRecorded ==
  \A p \in Flows :
    ( /\ flow[p].pc \in { "respond", "done" }
      /\ flow[p].emailResult \in { "failed", "threw" } )
    => /\ invoices[flow[p].invoiceId].emailAttempts >= 1
       /\ ~invoices[flow[p].invoiceId].emailSent

\* C8: no step changes the status of an order that is CANCELLED or DELIVERED.
C8_TerminalStaysTerminal ==
  [][ \A id \in DOMAIN orders :
        orders[id].status \in { "CANCELLED", "DELIVERED" }
        => orders'[id].status = orders[id].status ]_vars

StatusRank(status) ==
  CASE status = "PENDING" -> 0
    [] status = "CONFIRMED" -> 1
    [] status = "PREPARING" -> 2
    [] status = "READY" -> 3
    [] status = "OUT_FOR_DELIVERY" -> 4
    [] status = "DELIVERED" -> 5
    [] OTHER -> 6

\* C9: every status change other than a cancel moves the order forward along
\* PENDING, CONFIRMED, PREPARING, READY, OUT_FOR_DELIVERY, DELIVERED, and an
\* accept succeeds only on an order that is PENDING or CONFIRMED.
C9_ForwardOnly ==
  [][ /\ \A id \in DOMAIN orders :
           ( /\ orders'[id].status # orders[id].status
             /\ orders'[id].status # "CANCELLED" )
           => /\ StatusRank(orders'[id].status) <= 5
              /\ StatusRank(orders[id].status) < StatusRank(orders'[id].status)
      /\ ( /\ last'.seq # last.seq
           /\ last'.op = "accept"
           /\ last'.resp = "200" )
         => orders[last'.id].status \in { "PENDING", "CONFIRMED" } ]_vars

\* C10: an accept whose estimated-minutes input is missing or non-positive
\* is answered 400 and changes no order and broadcasts nothing.
C10_InvalidEstimateChangesNothing ==
  [][ ( /\ last'.seq # last.seq
        /\ last'.op = "accept"
        /\ (last'.arg = None \/ Val(last'.arg) <= 0) )
      => /\ last'.resp = "400"
         /\ orders' = orders
         /\ emitted' = emitted
         /\ lastEvent' = lastEvent ]_vars

C10_Witness ==
  /\ last.op = "accept"
  /\ last.arg = Some(0 - 1)
  /\ last.resp = "400"
  /\ last.id \in DOMAIN orders
  /\ orders[last.id].status = "PENDING"
  /\ orders[last.id].acceptedAt = None

\* C11: a successful accept leaves the order CONFIRMED with confirmedAt equal
\* to the time of the accept and estimatedTime equal to that time plus the
\* estimate.
C11_AcceptStampsConfirmedAt ==
  [][ ( /\ last'.seq # last.seq
        /\ last'.op = "accept"
        /\ last'.resp = "200" )
      => /\ orders'[last'.id].status = "CONFIRMED"
         /\ orders'[last'.id].confirmedAt = Some(now)
         /\ orders'[last'.id].estimatedTime = Some(now + Val(last'.arg)) ]_vars

\* C12: a direct status-set whose status is not a value of the order status
\* enum is answered 400, changes no order (status, estimatedTime and the
\* transition timestamps stay) and broadcasts nothing.
C12_InvalidStatusChangesNothing ==
  [][ ( /\ last'.seq # last.seq
        /\ last'.op = "status"
        /\ Val(last'.arg) \notin OrderStatus )
      => /\ last'.resp = "400"
         /\ orders' = orders
         /\ emitted' = emitted
         /\ lastEvent' = lastEvent ]_vars

C12_Witness ==
  /\ last.op = "status"
  /\ last.arg = Some("BOGUS")
  /\ last.resp = "400"
  /\ last.id \in DOMAIN orders
  /\ orders[last.id].status = "CONFIRMED"
  /\ IsSome(orders[last.id].acceptedAt)

\* C13: every step that changes the status of an order broadcasts an event
\* that carries the order's id, its orderNumber and its new status.
C13_TransitionBroadcasts ==
  [][ \A id \in DOMAIN orders :
        orders'[id].status # orders[id].status
        => /\ emitted' = emitted + 1
           /\ lastEvent'.id = id
           /\ lastEvent'.orderNumber = orders'[id].orderNumber
           /\ lastEvent'.status = orders'[id].status ]_vars

RECURSIVE SumTotalPrice(_)
SumTotalPrice(lines) ==
  IF lines = << >> THEN 0 ELSE Head(lines).totalPrice + SumTotalPrice(Tail(lines))

\* C14: every persisted order, of either flow and in every status, has
\* total = subtotal + deliveryFee and subtotal = the sum of its lines'
\* totalPrice, in whole cents.
C14_TotalsAddUp ==
  \A id \in DOMAIN orders :
    /\ orders[id].total = orders[id].subtotal + orders[id].deliveryFee
    /\ orders[id].subtotal = SumTotalPrice(orders[id].items)

C14_Witness ==
  \E id \in DOMAIN orders :
    /\ orders[id].paymentMethod = "CARD"
    /\ orders[id].status = "DELIVERED"
    /\ orders[id].deliveryFee > 0
    /\ Len(orders[id].items) = 2
    /\ orders[id].items[2].extras > 0
    /\ orders[id].total > orders[id].subtotal

\* what the fries policy charges for a persisted line
PolicyFriesCharge(line) ==
  IF line.friesUpgrade \notin DOMAIN FriesOptions THEN 0
  ELSE IF MenuItems[line.menuItemId].includesSides
          /\ line.friesUpgrade \in { "regular", "regular-fries" }
       THEN 0
       ELSE FriesOptions[line.friesUpgrade].priceAddon * line.quantity

\* C15: on every persisted line of either flow, the part of totalPrice that
\* is neither base price nor extras is what the fries policy charges: 0 for
\* regular / regular-fries on an item with sides included, priceAddon *
\* quantity for every other resolved option, 0 for a slug without an option.
C15_FriesPolicy ==
  \A id \in DOMAIN orders :
    \A i \in DOMAIN orders[id].items :
      LET line == orders[id].items[i]
      IN  line.totalPrice - line.unitPrice * line.quantity
            - line.extras * ExtraUnitPrice * line.quantity
          = PolicyFriesCharge(line)

C15_Witness ==
  /\ \E id \in DOMAIN orders :
       /\ orders[id].paymentMethod = "CARD"
       /\ Len(orders[id].items) = 2
       /\ orders[id].items[1].friesUpgrade = "regular-fries"
       /\ orders[id].items[1].totalPrice
            = orders[id].items[1].unitPrice * orders[id].items[1].quantity
       /\ orders[id].items[2].friesUpgrade = "regular-fries"
       /\ orders[id].items[2].totalPrice
            > orders[id].items[2].unitPrice * orders[id].items[2].quantity
                + orders[id].items[2].extras * ExtraUnitPrice * orders[id].items[2].quantity
  /\ flow[1].pc = "done"
  /\ flow[1].resp = "201"

\* a step in which flow p takes up a placement request
PlacementStep(p) ==
  /\ flow[p].pc \in { "idle", "done" }
  /\ flow'[p] # flow[p]

HasUnknownItem(items) ==
  \E i \in DOMAIN items : items[i].menuItemId \notin DOMAIN MenuItems

\* C16: a placement whose cart has a line with an unknown menu item id, at
\* whatever position, is answered 400 and ends there: no order, invoice or
\* payment row is added, no counter changes, nothing is broadcast.
C16_UnknownItemAborts ==
  [][ \A p \in Flows :
        (PlacementStep(p) /\ HasUnknownItem(flow'[p].items))
        => /\ flow'[p].pc = "done"
           /\ flow'[p].resp = "400"
           /\ orders' = orders
           /\ invoices' = invoices
           /\ payments' = payments
           /\ settings' = settings
           /\ emitted' = emitted ]_vars

C16_Witness ==
  /\ flow[1].kind = "paid"
  /\ flow[1].pc = "done"
  /\ flow[1].error = MenuItemNotFound(9)
  /\ Len(flow[1].items) = 2
  /\ Len(orders) = 1
  /\ Len(orders[1].items) = 2
  /\ Len(invoices) = 1
  /\ Len(payments) = 0

\* C17: a paid placement that got as far as the amount check is aborted,
\* with nothing persisted or broadcast, when the captured amount is more
\* than one cent off the order total, and creates the order when it is not.
C17_AmountTolerance ==
  [][ \A p \in Flows :
        ( /\ PlacementStep(p)
          /\ flow'[p].kind = "paid"
          /\ flow'[p].total > 0 )
        => IF \/ flow'[p].amount - flow'[p].total > AmountTolerance
              \/ flow'[p].total - flow'[p].amount > AmountTolerance
           THEN /\ flow'[p].resp = "400"
                /\ flow'[p].pc = "done"
                /\ orders' = orders
                /\ payments' = payments
                /\ invoices' = invoices
                /\ settings' = settings
                /\ emitted' = emitted
           ELSE /\ Len(orders') = Len(orders) + 1
                /\ flow'[p].pc = "payment" ]_vars

\* the fields of an invoice that are not e-mail bookkeeping
InvoiceContent(inv) ==
  [ f \in DOMAIN inv \ { "emailSent", "emailSentAt", "emailAttempts" } |-> inv[f] ]

\* C18: a step of a resend, successful or failed, leaves every order, every
\* counter and the number of invoices as they were, and changes no field of
\* an invoice other than emailSent, emailSentAt and emailAttempts.
C18_ResendFrame ==
  [][ resend' # resend
      => /\ orders' = orders
         /\ settings' = settings
         /\ payments' = payments
         /\ Len(invoices') = Len(invoices)
         /\ \A i \in DOMAIN invoices :
              InvoiceContent(invoices'[i]) = InvoiceContent(invoices[i]) ]_vars

C18_Witness ==
  /\ resend.pc = "done"
  /\ resend.resp = "500"
  /\ resend.emailResult = "failed"
  /\ invoices[resend.invoiceId].emailSent
  /\ invoices[resend.invoiceId].emailAttempts = MaxAttempts

\* C19: every line of every persisted order references a menu item that is
\* available and not soft-deleted.
C19_OnlyOrderableItems ==
  \A id \in DOMAIN orders :
    \A i \in DOMAIN orders[id].items :
      /\ MenuItems[orders[id].items[i].menuItemId].isAvailable
      /\ ~MenuItems[orders[id].items[i].menuItemId].isDeleted

\* C20: a persisted order has a delivery address exactly when it is a
\* DELIVERY order.
C20_AddressIffDelivery ==
  \A id \in DOMAIN orders :
    orders[id].orderType = "DELIVERY" <=> orders[id].deliveryAddress # NoAddress

\* n / d rounded to the nearest whole number, ties up
RoundHalfUp(n, d) == (2 * n + d) \div (2 * d)

\* C21: every persisted invoice carries, for the total g of its order in
\* cents, vatAmount = g * 0.19 rounded to the nearest cent with ties up,
\* totalNet = g - vatAmount and totalGross = g = totalNet + vatAmount; a
\* gross of 20.40 gives 3.88 and 16.52.
C21_VatBreakdown ==
  /\ calculateVATBreakdown(DoubleOfCents(2040))
       = [ netAmount |-> 1652, vatAmount |-> 388, grossAmount |-> 2040 ]
  /\ \A i \in DOMAIN invoices :
       LET g == orders[invoices[i].orderId].total
       IN  /\ invoices[i].vatAmount = RoundHalfUp(g * VatRatePercent, 100)
           /\ invoices[i].totalNet = g - invoices[i].vatAmount
           /\ invoices[i].totalGross = g
           /\ invoices[i].totalNet + invoices[i].vatAmount = invoices[i].totalGross

\* the flow's step is part of invoice issuance: the counter's write or the
\* invoice row's insert
IssuanceStep(p) ==
  /\ flow[p].pc \in { "counterWrite", "invoiceCreate" }
  /\ flow'[p] # flow[p]

\* the flow's step is an attempt to send the invoice e-mail
InvoiceEmailAttempt(p) ==
  /\ flow'[p].emailResult # "none"
  /\ flow'[p].emailResult # flow[p].emailResult \/ flow[p].pc = "email"

\* C22: within one placement, the counter increment and the invoice insert
\* happen only once the placement's order row is persisted, and the invoice
\* e-mail is attempted only once the counter was taken and the invoice row
\* of that order is persisted.
C22_IssuanceOrdered ==
  [][\A p \in Flows :
       /\ IssuanceStep(p) => flow[p].orderId \in DOMAIN orders
       /\ InvoiceEmailAttempt(p) =>
            /\ flow[p].orderId \in DOMAIN orders
            /\ flow[p].counter >= 1
            /\ flow[p].invoiceId \in DOMAIN invoices
            /\ invoices[flow[p].invoiceId].orderId = flow[p].orderId
            /\ invoices[flow[p].invoiceId].invoiceNumber
                 = generateInvoiceNumber(flow[p].paymentMethod, flow[p].yr,
                                         flow[p].counter)]_vars

C22_Witness ==
  \E p \in Flows :
    /\ flow[p].kind = "cash"
    /\ flow[p].pc = "done"
    /\ flow[p].emailResult = "sent"
    /\ flow[p].invoiceId \in DOMAIN invoices
    /\ invoices[flow[p].invoiceId].emailSent

\* the persisted counter of a key, an absent key counting as 0
PersistedCounter(s, key) == IF key \in DOMAIN s THEN s[key] ELSE 0

\* every possible counter key of the years there are
CounterKeys == { CounterKey(pm, yr) : pm \in PaymentMethod, yr \in 0 .. MaxYear + 1 }

\* C23: with calls of getNextInvoiceCounter that do not overlap, no counter
\* is persisted at the start, and each call returns the persisted counter
\* of its (paymentMethod, year) key plus one (an absent key counting as 0),
\* leaves that value persisted under the key and changes no other key; no
\* other step changes a counter.  So the k-th call on a key returns k and a
\* key of a new year starts at 1.
C23_SequentialCounter ==
  /\ \A key \in CounterKeys : PersistedCounter(settings, key) = 0
  /\ [][LET own == CounterKey(flow[1].paymentMethod, year)
        IN  IF flow[1].pc = "counterWrite" /\ flow'[1] # flow[1]
            THEN /\ flow'[1].counter = PersistedCounter(settings, own) + 1
                 /\ PersistedCounter(settings', own) = flow'[1].counter
                 /\ DOMAIN settings' = DOMAIN settings \cup { own }
                 /\ \A key \in DOMAIN settings :
                      key # own => settings'[key] = settings[key]
            ELSE settings' = settings]_vars

C23_Witness ==
  /\ PersistedCounter(settings, CounterKey("CASH", 0)) = 2
  /\ PersistedCounter(settings, CounterKey("CASH", 1)) = 1
  /\ flow[1].pc = "invoiceCreate"
  /\ flow[1].counter = 1

\* C24: with a restaurant configured, every placed order carries the
\* restaurant's configured delivery fee if its orderType is DELIVERY and 0
\* otherwise, whatever the configured fee is, 0 included.
C24_DeliveryFee ==
  IsSome(restaurant) =>
    \A id \in DOMAIN orders :
      orders[id].deliveryFee
        = IF orders[id].orderType = "DELIVERY" THEN Val(restaurant).deliveryFee ELSE 0

\* C25: on every persisted line of either flow, totalPrice is unitPrice *
\* quantity plus the fries addon plus the extras addon, where the extras
\* addon is (number of extras) * 0.30 * quantity and 0 without extras; the
\* selected sauce, resolved or not and whatever its catalogue price, adds 0.
C25_ExtrasAndSauce ==
  \A id \in DOMAIN orders :
    \A i \in DOMAIN orders[id].items :
      LET line == orders[id].items[i]
          extrasAddon == IF line.extras > 0
                         THEN line.extras * ExtraUnitPrice * line.quantity
                         ELSE 0
      IN  line.totalPrice
            = line.unitPrice * line.quantity + PolicyFriesCharge(line) + extrasAddon

C25_Witness ==
  \E id \in DOMAIN orders :
    /\ orders[id].paymentMethod = "CARD"
    /\ Len(orders[id].items) = 2
    /\ orders[id].items[1].selectedSauce \in DOMAIN Sauces
    /\ Sauces[orders[id].items[1].selectedSauce].price > 0
    /\ orders[id].items[1].extras > 0
    /\ orders[id].items[2].selectedSauce \notin DOMAIN Sauces \cup { NoSlug }
    /\ orders[id].items[2].extras = 0

\* C26: in every reachable state an order in status OUT_FOR_DELIVERY has
\* orderType DELIVERY, and a step that moves an order to OUT_FOR_DELIVERY
\* finds it in status READY.
C26_OutForDelivery ==
  /\ [](\A id \in DOMAIN orders :
          orders[id].status = "OUT_FOR_DELIVERY" => orders[id].orderType = "DELIVERY")
  /\ [][\A id \in DOMAIN orders :
          (orders'[id].status = "OUT_FOR_DELIVERY" /\ orders[id].status # "OUT_FOR_DELIVERY")
            => orders[id].status = "READY"]_vars

NonTerminal == { "PENDING", "CONFIRMED", "PREPARING", "READY", "OUT_FOR_DELIVERY" }

\* one step of any operation that writes an order's status, with any input
StatusOperation ==
  \/ \E id \in OrderIds, body \in StatusRequests : SetStatus(id, body[1], body[2])
  \/ \E id \in OrderIds : Cancel(id)
  \/ \E id \in OrderIds, estimatedMinutes \in EstimateInputs : Accept(id, estimatedMinutes)
  \/ \E id \in OrderIds : Ready(id)
  \/ \E id \in OrderIds : Delivery(id)
  \/ \E id \in OrderIds : Complete(id)
  \/ \E paymentIntentId \in PaymentIntentIds : WebhookSucceeded(paymentIntentId)
  \/ \E paymentIntentId \in PaymentIntentIds : WebhookFailed(paymentIntentId)

\* some operation moves the order to the status
CanMoveTo(id, status) == ENABLED (StatusOperation /\ orders'[id].status = status)

\* every order in a non-terminal status can be cancelled by some operation
CancelledReachable ==
  \A id \in DOMAIN orders :
    orders[id].status \in NonTerminal => CanMoveTo(id, "CANCELLED")

\* C27: for every order in a non-terminal status there is an operation that
\* moves it to REFUNDED, as there is one that moves it to CANCELLED.
C27_RefundedReachable ==
  \A id \in DOMAIN orders :
    orders[id].status \in NonTerminal =>
      CanMoveTo(id, "REFUNDED") /\ CanMoveTo(id, "CANCELLED")

\* C28: however often and however interleaved confirm-payment runs for one
\* paymentIntentId, at most one payment row carries that transactionId, and
\* so at most one order comes of it.
C28_OneOrderPerIntent ==
  \A i, j \in DOMAIN payments :
    payments[i].transactionId = payments[j].transactionId =>
      i = j /\ payments[i].orderId = payments[j].orderId

\* C29: under every interleaving of the placement's e-mail step with admin
\* resends, no step turns an invoice's emailSent from true to false or
\* lowers its emailAttempts, and an invoice with emailSent true has
\* emailAttempts >= 1.
C29_EmailBookkeepingMonotonic ==
  /\ [](\A i \in DOMAIN invoices :
          invoices[i].emailSent => invoices[i].emailAttempts >= 1)
  /\ [][\A i \in DOMAIN invoices :
          /\ invoices[i].emailSent => invoices'[i].emailSent
          /\ invoices'[i].emailAttempts >= invoices[i].emailAttempts]_vars

\* C30: a confirm-payment whose retrieved intent is in a status other than
\* succeeded is answered 400 and persists and broadcasts nothing; a
\* confirm-payment that persists an order had a succeeded intent and
\* creates the order in status PENDING with paymentMethod CARD and
\* paymentStatus COMPLETED; payments and invoices belong to such orders.
C30_SucceededOnly ==
  /\ [](\A i \in DOMAIN payments : payments[i].orderId \in DOMAIN orders)
  /\ [](\A i \in DOMAIN invoices : invoices[i].orderId \in DOMAIN orders)
  /\ [][\A p \in Flows :
          (PlacementStep(p) /\ flow'[p].kind = "paid") =>
            /\ flow'[p].intentStatus \notin { "none", "succeeded" } =>
                 /\ flow'[p].resp = "400"
                 /\ flow'[p].pc = "done"
                 /\ orders' = orders
                 /\ payments' = payments
                 /\ invoices' = invoices
                 /\ settings' = settings
                 /\ emitted' = emitted
            /\ orders' # orders =>
                 /\ flow'[p].intentStatus = "succeeded"
                 /\ Len(orders') = Len(orders) + 1
                 /\ SubSeq(orders', 1, Len(orders)) = orders
                 /\ orders'[Len(orders')].status = "PENDING"
                 /\ orders'[Len(orders')].paymentMethod = "CARD"
                 /\ orders'[Len(orders')].paymentStatus = "COMPLETED"]_vars

C30_Witness ==
  /\ flow[1].kind = "paid"
  /\ flow[1].intentStatus = "processing"
  /\ flow[1].resp = "400"
  /\ flow[1].amount = PriceItems(flow[1].items, 0, << >>).subtotal
  /\ Len(orders) = 1
  /\ Len(payments) = 1
  /\ Len(invoices) = 1

====
